---- MODULE Spec2Model ----
(***************************************************************************)
(* Model of the Karakeep Markdown importer (src/importer.js).              *)
(*                                                                         *)
(* Strings are sequences of one-character strings, so that trim, the      *)
(* trailing-slash removal, toLowerCase, endsWith, the extension regex and  *)
(* substring are computed as the code computes them.                       *)
(*                                                                         *)
(* An action is one synchronous stretch of JavaScript: from a click or the *)
(* settling of an awaited promise up to the next await (or the return).    *)
(*                                                                         *)
(* The one exception that can escape the per-file try block is a throw of  *)
(* the for-of iteration (line 232); an action picks nondeterministically   *)
(* whether and at which step it happens (fatalAt, 0: never).               *)
(***************************************************************************)
EXTENDS Integers, Sequences, FiniteSets, TLC

\* ------------------------------------------------------------------ bounds
MaxFiles == 2          \* longest file selection
MaxRuns == 2           \* clicks of the start button
MaxBatch == 3          \* longest file selection of the one-click specification
MaxTitleExtra == 4     \* titles are drawn up to this much longer than the limit

\* --------------------------------------------------------------- constants
MAX_KARAKEEP_TITLE_LENGTH == 255

VARIABLES
    karakeepUrl,       \* karakeepUrlInput.value
    karakeepApiKey,    \* karakeepApiKeyInput.value
    markdownFiles,     \* markdownFilesInput.files: the names, in order
    disabled,          \* startButton.disabled
    logOutput,         \* the children of logOutput, in order
    runs,              \* the invocations of startImportProcess, in click order
    requestCount,      \* number of fetch() calls issued so far (all runs)
    titleIn,           \* createRootItemInKarakeep's title argument (title specification)
    payload            \* the payload built from it (title specification)

vars == <<karakeepUrl, karakeepApiKey, markdownFiles, disabled, logOutput, runs,
          requestCount, titleIn, payload>>

\* ---------------------------------------------------------- string helpers
Min(a, b) == IF a < b THEN a ELSE b

\* String.prototype.substring(0, n)
substring0(s, n) == SubSeq(s, 1, Min(n, Len(s)))

RECURSIVE trimStart(_)
trimStart(s) == IF Len(s) > 0 /\ s[1] = " " THEN trimStart(Tail(s)) ELSE s

RECURSIVE trimEnd(_)
trimEnd(s) ==
    IF Len(s) > 0 /\ s[Len(s)] = " " THEN trimEnd(SubSeq(s, 1, Len(s) - 1)) ELSE s

\* String.prototype.trim
trim(s) == trimEnd(trimStart(s))

\* .replace(/\/$/, '')
removeTrailingSlash(s) ==
    IF Len(s) > 0 /\ s[Len(s)] = "/" THEN SubSeq(s, 1, Len(s) - 1) ELSE s

\* String.prototype.endsWith
endsWith(s, suffix) ==
    /\ Len(s) >= Len(suffix)
    /\ SubSeq(s, Len(s) - Len(suffix) + 1, Len(s)) = suffix

\* one character of toLowerCase, over the letters the file names use
lowerChar(c) ==
    CASE c = "A" -> "a" [] c = "B" -> "b" [] c = "D" -> "d" [] c = "M" -> "m"
      [] OTHER -> c

\* String.prototype.toLowerCase
toLowerCase(s) == [i \in 1..Len(s) |-> lowerChar(s[i])]

DotMd == <<".", "m", "d">>
ApiV1 == <<"/", "a", "p", "i", "/", "v", "1">>
Ellipsis == <<".", ".", ".">>

\* variant of IsMarkdownName without toLowerCase
IsMarkdownNameCaseSensitive(name) == endsWith(name, DotMd)

\* the test of line 237, negated: the name ends in .md, whatever the case
IsMarkdownName(name) == endsWith(toLowerCase(name), DotMd)

\* fullFileName.replace(/\.[^/.]+$/, ""): the last dot and what follows it, when at
\* least one character follows and none of them is a slash
getFileNameWithoutExtension(fullFileName) ==
    LET dots == {i \in 1..Len(fullFileName) : fullFileName[i] = "."}
    IN  IF dots = {} THEN fullFileName
        ELSE LET p == CHOOSE i \in dots : \A j \in dots : j <= i
             IN  IF /\ p < Len(fullFileName)
                    /\ \A j \in (p + 1)..Len(fullFileName) : fullFileName[j] # "/"
                 THEN SubSeq(fullFileName, 1, p - 1)
                 ELSE fullFileName

\* variant of truncateTitle that keeps MAX characters before the ellipsis
truncateTitleKeepingLimitChars(title) ==
    IF Len(title) > MAX_KARAKEEP_TITLE_LENGTH
    THEN substring0(title, MAX_KARAKEEP_TITLE_LENGTH) \o Ellipsis
    ELSE title

\* lines 142-152
truncateTitle(title) ==
    IF Len(title) > MAX_KARAKEEP_TITLE_LENGTH
    THEN IF MAX_KARAKEEP_TITLE_LENGTH >= 3
         THEN substring0(title, MAX_KARAKEEP_TITLE_LENGTH - 3) \o Ellipsis
         ELSE substring0(title, MAX_KARAKEEP_TITLE_LENGTH)
    ELSE title

\* the payload of lines 165-174 (text left out: it is passed through untouched)
BuildPayload(title) ==
    [title |-> truncateTitle(title),
     type |-> "text",
     archived |-> FALSE,
     favourited |-> FALSE,
     note |-> title \o DotMd,
     summary |-> <<>>]

\* ------------------------------------------------------------ the log area
\* logMessage(message, isError): msg is the message's template, file the index of
\* the file it names (0: none), n the count it prints (0: none; a status code,
\* an id or a length in the text is left out)
LogEntry(msg, file, n, isError) ==
    [msg |-> msg, file |-> file, n |-> n, isError |-> isError]

logMessage(log, msg, file, n, isError) == Append(log, LogEntry(msg, file, n, isError))

\* clearLog(): empty the area, then log "Log cleared."
clearLog == <<LogEntry("Log cleared.", 0, 0, FALSE)>>

\* ------------------------------------------------- the remote API's answers
\* a parsed JSON body, as far as createdBookmarkData?.id reads it
Json(t, hasId, idTy, idNum, idStr) ==
    [t |-> t, hasId |-> hasId, idTy |-> idTy, idNum |-> idNum, idStr |-> idStr]

JsonNull == Json("null", FALSE, "none", 0, <<>>)
JsonNoId == Json("object", FALSE, "none", 0, <<>>)
JsonScalar == Json("scalar", FALSE, "none", 0, <<>>)
JsonIdNum(n) == Json("object", TRUE, "num", n, <<>>)
JsonIdStr(s) == Json("object", TRUE, "str", 0, s)

\* what fetch() settles with: net = FALSE is a rejection (transport failure);
\* emptyLen: the content-length header is '0'; textOk: response.text() resolves;
\* jsonOk: response.json() resolves, with json
Response(net, status, emptyLen, textOk, jsonOk, json) ==
    [net |-> net, status |-> status, emptyLen |-> emptyLen, textOk |-> textOk,
     jsonOk |-> jsonOk, json |-> json]

NoResponse == Response(FALSE, 0, FALSE, FALSE, FALSE, JsonNull)

Responses ==
    { Response(FALSE, 0, FALSE, FALSE, FALSE, JsonNull),      \* network error
      Response(TRUE, 500, FALSE, TRUE, FALSE, JsonNull),      \* 500 "Internal error"
      Response(TRUE, 404, FALSE, FALSE, FALSE, JsonNull),     \* 404, body unreadable
      Response(TRUE, 204, FALSE, TRUE, FALSE, JsonNull),      \* 204 No Content
      Response(TRUE, 200, TRUE, TRUE, FALSE, JsonNull),       \* 200, content-length 0
      Response(TRUE, 201, FALSE, TRUE, FALSE, JsonNull),      \* 201, body is not JSON
      Response(TRUE, 200, FALSE, TRUE, TRUE, JsonNull),       \* null
      Response(TRUE, 200, FALSE, TRUE, TRUE, JsonScalar),     \* 7
      Response(TRUE, 201, FALSE, TRUE, TRUE, JsonNoId),       \* {}
      Response(TRUE, 201, FALSE, TRUE, TRUE, JsonIdNum(42)),  \* {"id": 42}
      Response(TRUE, 201, FALSE, TRUE, TRUE, JsonIdNum(0)),   \* {"id": 0}
      Response(TRUE, 200, FALSE, TRUE, TRUE, JsonIdStr(<<"c", "1">>)),  \* {"id": "c1"}
      Response(TRUE, 200, FALSE, TRUE, TRUE, JsonIdStr(<<>>)) }         \* {"id": ""}

\* response.ok
ResponseOk(resp) == resp.status >= 200 /\ resp.status <= 299

\* line 112: status 204 or content-length '0'
NoContent(resp) == resp.status = 204 \/ resp.emptyLen

\* createdBookmarkData?.id, as a condition: the value is truthy
IdTruthy(data) ==
    /\ data.t = "object"
    /\ data.hasId
    /\ \/ data.idTy = "num" /\ data.idNum # 0
       \/ data.idTy = "str" /\ data.idStr # <<>>

\* fetchKarakeep from the settling of fetch() on, for file k: whether it throws,
\* the data it returns and what it logs
Outcome(threw, data, value, logs) ==
    [threw |-> threw, data |-> data, value |-> value, logs |-> logs]

fetchKarakeep(resp, k) ==
    IF ~resp.net
    THEN Outcome(TRUE, JsonNull, FALSE, <<LogEntry("Fetch Error", k, 0, TRUE)>>)
    ELSE IF ~ResponseOk(resp)
    THEN Outcome(TRUE, JsonNull, FALSE,
                 <<LogEntry("API Response Error", k, 0, TRUE),
                   LogEntry("Fetch Error", k, 0, TRUE)>>)
    ELSE IF NoContent(resp)
    THEN Outcome(FALSE, JsonNull, FALSE,
                 <<LogEntry("API Response OK (No Content)", k, 0, FALSE)>>)
    ELSE IF ~resp.jsonOk
    THEN Outcome(TRUE, JsonNull, FALSE, <<LogEntry("Fetch Error", k, 0, TRUE)>>)
    ELSE Outcome(FALSE, resp.json, FALSE,
                 <<LogEntry("API Response OK", k, 0, FALSE)>>)

\* variant of createRootItemInKarakeep without its catch block
createRootItemInKarakeepNoCatch(fetched, k) ==
    IF fetched.threw
    THEN Outcome(TRUE, fetched.data, FALSE, fetched.logs)
    ELSE IF ~IdTruthy(fetched.data)
    THEN Outcome(FALSE, fetched.data, FALSE,
                 Append(fetched.logs, LogEntry("ERROR: Could not extract 'id'", k, 0, TRUE)))
    ELSE Outcome(FALSE, fetched.data, TRUE,
                 Append(fetched.logs, LogEntry("Successfully CREATED", k, 0, FALSE)))

\* createRootItemInKarakeep from the return of fetchKarakeep on (lines 183-196)
createRootItemInKarakeep(fetched, k) ==
    IF fetched.threw
    THEN Outcome(FALSE, fetched.data, FALSE,
                 Append(fetched.logs,
                        LogEntry("An unexpected error occurred during CREATE", k, 0, TRUE)))
    ELSE IF ~IdTruthy(fetched.data)
    THEN Outcome(FALSE, fetched.data, FALSE,
                 Append(fetched.logs, LogEntry("ERROR: Could not extract 'id'", k, 0, TRUE)))
    ELSE Outcome(FALSE, fetched.data, TRUE,
                 Append(fetched.logs, LogEntry("Successfully CREATED", k, 0, FALSE)))

\* ------------------------------------------------- one startImportProcess
\* what has happened to file k in a run: the await of readFileContent, of the POST
\* (fetch and the body read) and of sleep(100), the number of fetch() calls made for
\* it and what createRootItemInKarakeep gave back
NoHist ==
    [skipped |-> FALSE, read |-> "none", post |-> "none", attempts |-> 0,
     result |-> "none", delay |-> "none"]

NoRequest == [url |-> <<>>, method |-> "none", payload |-> BuildPayload(<<>>)]

\* the locals of one invocation; pc is the await it is suspended at
\* ("reading", "fetching", "errbody", "parsing", "sleeping"), "invalid" after the
\* return of line 218, "done" after the finally block, "gone" once forgotten;
\* iterationThrew: the for-of iteration threw; fatal: the catch block ran
NewRun(apiUrl, apiKey, files) ==
    [pc |-> "start", apiUrl |-> apiUrl, apiKey |-> apiKey, files |-> files,
     totalFiles |-> Len(files), i |-> 0,
     filesProcessedCount |-> 0, filesSyncedSuccessfully |-> 0,
     iterationThrew |-> FALSE, fatal |-> FALSE, response |-> NoResponse, request |-> NoRequest,
     requestsBefore |-> 0,
     hist |-> [k \in 1..Len(files) |-> NoHist]]

GoneRun == [NewRun(<<>>, <<>>, <<>>) EXCEPT !.pc = "gone"]

ActivePc == {"reading", "fetching", "errbody", "parsing", "sleeping"}

\* a run together with the page state it shares
Ctx(run, log, dis, count) ==
    [run |-> run, log |-> log, disabled |-> dis, requestCount |-> count]

\* variant of BeginRun without line 206
BeginRunLeavingButtonEnabled(c) ==
    [c EXCEPT !.log = logMessage(clearLog, "--- Starting Markdown Import Process ---",
                                 0, 0, FALSE)]

\* lines 205-207
BeginRun(c) ==
    [c EXCEPT !.log = logMessage(clearLog, "--- Starting Markdown Import Process ---",
                                 0, 0, FALSE),
              !.disabled = TRUE]

\* variant of InputsValid without the test of the key
InputsValidIgnoringKey(apiUrl, apiKey, files) == apiUrl # <<>> /\ Len(files) # 0

\* line 215, negated
InputsValid(apiUrl, apiKey, files) ==
    apiUrl # <<>> /\ apiKey # <<>> /\ Len(files) # 0

\* lines 216-218
RejectInputs(c) ==
    [c EXCEPT !.log = logMessage(@, "ERROR: Please fill in API URL, API Key, ...",
                                 0, 0, TRUE),
              !.disabled = FALSE,
              !.run.pc = "invalid"]

Summary(run) ==
    <<LogEntry("--- Import Run Summary ---", 0, 0, FALSE),
      LogEntry("Total Markdown Files Selected", 0, run.totalFiles, FALSE),
      LogEntry("Files Processed Attempted", 0, run.filesProcessedCount, FALSE),
      LogEntry("Files Imported Successfully to Karakeep", 0,
               run.filesSyncedSuccessfully, FALSE),
      LogEntry("--- End of Run ---", 0, 0, FALSE)>>

\* variant of Finalize that logs no summary after a fatal error
FinalizeUnlessFatal(c) ==
    [c EXCEPT !.log = IF c.run.fatal THEN @ ELSE @ \o Summary(c.run),
              !.disabled = FALSE,
              !.run.pc = "done"]

\* the finally block, lines 273-281
Finalize(c) ==
    [c EXCEPT !.log = @ \o Summary(c.run),
              !.disabled = FALSE,
              !.run.pc = "done"]

\* the catch block, lines 269-272
CatchFatal(c) ==
    [c EXCEPT !.log = @ \o <<LogEntry("FATAL ERROR during import process", 0, 0, TRUE),
                             LogEntry("Import process halted.", 0, 0, TRUE)>>,
              !.run.fatal = TRUE]

\* variant of ProcessFiles that counts a file after the test of its extension
RECURSIVE ProcessFilesCountingAfterCheck(_, _, _)
ProcessFilesCountingAfterCheck(c, k, fatalAt) ==
    IF k = fatalAt THEN Finalize(CatchFatal([c EXCEPT !.run.iterationThrew = TRUE]))
    ELSE IF k > c.run.totalFiles THEN Finalize(c)
    ELSE IF ~IsMarkdownName(c.run.files[k])
    THEN ProcessFilesCountingAfterCheck(
             [c EXCEPT !.run.i = k,
                       !.log = logMessage(@, "Skipping file", k, 0, TRUE),
                       !.run.hist[k].skipped = TRUE],
             k + 1, fatalAt)
    ELSE [c EXCEPT !.run.filesProcessedCount = @ + 1,
                   !.run.i = k,
                   !.log = logMessage(@, "Processing file", k,
                                      c.run.filesProcessedCount + 1, FALSE),
                   !.run.pc = "reading",
                   !.run.hist[k].read = "pending"]

\* the for loop from the iterator's step to file k on (lines 232-244), up to the
\* next await: skipped files follow each other without one. fatalAt is the step at
\* which the iteration throws (0: it does not)
RECURSIVE ProcessFiles(_, _, _)
ProcessFiles(c, k, fatalAt) ==
    IF k = fatalAt THEN Finalize(CatchFatal([c EXCEPT !.run.iterationThrew = TRUE]))
    ELSE IF k > c.run.totalFiles THEN Finalize(c)
    ELSE LET counted ==
                 [c EXCEPT !.run.filesProcessedCount = @ + 1,
                           !.run.i = k,
                           !.log = logMessage(@, "Processing file", k,
                                              c.run.filesProcessedCount + 1, FALSE)]
         IN  IF ~IsMarkdownName(c.run.files[k])
             THEN ProcessFiles(
                      [counted EXCEPT !.log = logMessage(@, "Skipping file", k, 0, TRUE),
                                      !.run.hist[k].skipped = TRUE],
                      k + 1, fatalAt)
             ELSE [counted EXCEPT !.run.pc = "reading",
                                  !.run.hist[k].read = "pending"]

\* variant of AfterFile without the await of line 266
AfterFileWithoutDelay(c) == ProcessFiles(c, c.run.i + 1, 0)

\* line 266: await sleep(100)
AfterFile(c) ==
    [c EXCEPT !.run.pc = "sleeping", !.run.hist[c.run.i].delay = "pending"]

\* the synchronous start of startImportProcess, lines 205-244
startImportProcess(c, url, key, files, fatalAt) ==
    LET apiUrl == removeTrailingSlash(trim(url))
        apiKey == trim(key)
        begun == BeginRun([c EXCEPT !.run = NewRun(apiUrl, apiKey, files)])
    IN  IF ~InputsValid(apiUrl, apiKey, files)
        THEN RejectInputs(begun)
        ELSE LET warned ==
                     IF endsWith(apiUrl, ApiV1) THEN begun
                     ELSE [begun EXCEPT !.log = logMessage(@,
                               "Warning: API URL doesn't end with '/api/v1'", 0, 0, TRUE)]
             IN  ProcessFiles(
                     [warned EXCEPT !.log = logMessage(@, "--- Processing Markdown file(s) ---",
                                                       0, Len(files), FALSE)],
                     1, fatalAt)

\* readFileContent resolved: lines 245-253, 164-182 and 84-99, up to await fetch()
OnReadOk(c) ==
    LET k == c.run.i
        itemTitle == getFileNameWithoutExtension(c.run.files[k])
    IN  [c EXCEPT !.log = @ \o <<LogEntry("Read content", k, 0, FALSE),
                                 LogEntry("Attempting CREATE", k, 0, FALSE),
                                 LogEntry("API Request", k, 0, FALSE)>>,
                  !.run.hist[k].read = "ok",
                  !.run.hist[k].post = "pending",
                  !.run.hist[k].attempts = @ + 1,
                  !.run.request = [url |-> c.run.apiUrl \o <<"/", "bookmarks">>,
                                   method |-> "POST",
                                   payload |-> BuildPayload(itemTitle)],
                  !.requestCount = @ + 1,
                  !.run.pc = "fetching"]

\* variant of OnReadError without the inner try: the rejection reaches line 269
OnReadErrorRethrowing(c) ==
    Finalize(CatchFatal([c EXCEPT !.run.hist[c.run.i].read = "fail"]))

\* readFileContent rejected: the inner catch (lines 261-264), then line 266
OnReadError(c) ==
    AfterFile([c EXCEPT !.log = logMessage(@, "Error processing file", c.run.i, 0, TRUE),
                        !.run.hist[c.run.i].read = "fail"])

\* the request is over (fetchKarakeep returned or threw): lines 183-196, 255-266
OnRequestOver(c) ==
    LET k == c.run.i
        created == createRootItemInKarakeep(fetchKarakeep(c.run.response, k), k)
        logged == [c EXCEPT !.log = @ \o created.logs, !.run.hist[k].post = "done"]
    IN  AfterFile(
            IF created.threw
            THEN [logged EXCEPT !.log = logMessage(@, "Error processing file", k, 0, TRUE),
                                !.run.hist[k].result = "threw"]
            ELSE IF created.value
            THEN [logged EXCEPT !.run.filesSyncedSuccessfully = @ + 1,
                                !.run.hist[k].result = "true"]
            ELSE [logged EXCEPT !.log = logMessage(@, "Failed to import", k, 0, TRUE),
                                !.run.hist[k].result = "false"])

\* fetch() settled with resp: lines 99-115; a response with a body to read suspends
\* again, at response.text() (line 104) or response.json() (line 117)
OnFetchSettled(c, resp) ==
    LET got == [c EXCEPT !.run.response = resp]
    IN  IF resp.net /\ ~ResponseOk(resp) THEN [got EXCEPT !.run.pc = "errbody"]
        ELSE IF resp.net /\ ~NoContent(resp) THEN [got EXCEPT !.run.pc = "parsing"]
        ELSE OnRequestOver(got)

\* sleep(100) is over: back to the head of the loop
OnSleepOver(c, fatalAt) ==
    ProcessFiles([c EXCEPT !.run.hist[c.run.i].delay = "done",
                           !.run.response = NoResponse],
                 c.run.i + 1, fatalAt)

\* ------------------------------------------------------------- the inputs
\* what the user may have typed and selected
UrlInputs ==
    { <<>>,
      <<" ">>,
      <<"/">>,
      <<"h">>,
      <<" ", "h", "/", "a", "p", "i", "/", "v", "1", "/", " ">> }

KeyInputs == { <<>>, <<" ">>, <<" ", "k">> }

FileNames ==
    { <<"a", ".", "m", "d">>,
      <<"B", ".", "M", "D">>,
      <<"c", ".", "t", "x", "t">> }

FileLists == UNION {[1..n -> FileNames] : n \in 0..MaxFiles}

BatchLists == UNION {[1..n -> FileNames] : n \in 0..MaxBatch}

TitleChars == <<"a", ".", "b", "/">>
TitleOf(n, p) == [i \in 1..n |-> TitleChars[((i * p) % 4) + 1]]
Titles ==
    {TitleOf(n, p) : n \in 0..(MAX_KARAKEEP_TITLE_LENGTH + MaxTitleExtra), p \in 1..2}

\* ----------------------------------------------------------- the actions
Init ==
    /\ karakeepUrl \in UrlInputs
    /\ karakeepApiKey \in KeyInputs
    /\ markdownFiles \in FileLists
    /\ disabled = FALSE
    /\ logOutput = <<>>
    /\ runs = <<>>
    /\ requestCount = 0
    /\ titleIn = <<>>
    /\ payload = BuildPayload(<<>>)

Here(r) == Ctx(runs[r], logOutput, disabled, requestCount)

Install(r, c) ==
    /\ runs' = [runs EXCEPT ![r] = c.run]
    /\ logOutput' = c.log
    /\ disabled' = c.disabled
    /\ requestCount' = c.requestCount
    /\ UNCHANGED <<karakeepUrl, karakeepApiKey, markdownFiles, titleIn, payload>>

\* line 13: a click on the start button; a disabled button dispatches none
Click ==
    /\ ~disabled
    /\ Len(runs) < MaxRuns
    /\ \E fatalAt \in 0..(Len(markdownFiles) + 1) :
         \E c \in {startImportProcess(Ctx(GoneRun, logOutput, disabled, requestCount),
                                       karakeepUrl, karakeepApiKey, markdownFiles,
                                       fatalAt)} :
             /\ runs' = Append([k \in 1..Len(runs) |->
                                   IF runs[k].pc \in ActivePc THEN runs[k] ELSE GoneRun],
                               [c.run EXCEPT !.requestsBefore = requestCount])
             /\ logOutput' = c.log
             /\ disabled' = c.disabled
             /\ requestCount' = c.requestCount
    /\ UNCHANGED <<karakeepUrl, karakeepApiKey, markdownFiles, titleIn, payload>>

\* the FileReader fires onload (ok) or onerror
ReadSettle ==
    \E r \in 1..Len(runs) :
        /\ runs[r].pc = "reading"
        /\ \E ok \in BOOLEAN :
             \E c \in {IF ok THEN OnReadOk(Here(r)) ELSE OnReadError(Here(r))} :
                 Install(r, c)

\* fetch() resolves with a response or rejects
FetchSettle ==
    \E r \in 1..Len(runs) :
        /\ runs[r].pc = "fetching"
        /\ \E resp \in Responses :
             \E c \in {OnFetchSettled(Here(r), resp)} : Install(r, c)

\* response.text() or response.json() settles
BodySettle ==
    \E r \in 1..Len(runs) :
        /\ runs[r].pc \in {"errbody", "parsing"}
        /\ \E c \in {OnRequestOver(Here(r))} : Install(r, c)

\* the timer of sleep(100) fires
SleepDone ==
    \E r \in 1..Len(runs) :
        /\ runs[r].pc = "sleeping"
        /\ \E fatalAt \in {0} \cup ((runs[r].i + 1)..(runs[r].totalFiles + 1)) :
             \E c \in {OnSleepOver(Here(r), fatalAt)} : Install(r, c)

Next == Click \/ ReadSettle \/ FetchSettle \/ BodySettle \/ SleepDone

Spec == Init /\ [][Next]_vars

\* one invocation, whose every pending read, request, body read and timer
\* eventually settles
FirstClick == runs = <<>> /\ Click

NextOnce == FirstClick \/ ReadSettle \/ FetchSettle \/ BodySettle \/ SleepDone

Settle == ReadSettle \/ FetchSettle \/ BodySettle \/ SleepDone

FairSpec == Init /\ [][NextOnce]_vars /\ WF_vars(Settle)

\* one invocation over a longer selection
InitBatch ==
    /\ karakeepUrl \in UrlInputs
    /\ karakeepApiKey \in KeyInputs
    /\ markdownFiles \in BatchLists
    /\ disabled = FALSE
    /\ logOutput = <<>>
    /\ runs = <<>>
    /\ requestCount = 0
    /\ titleIn = <<>>
    /\ payload = BuildPayload(<<>>)

SpecBatch == InitBatch /\ [][NextOnce]_vars

\* createRootItemInKarakeep's payload for any title (lines 163-174)
InitTitle ==
    /\ karakeepUrl = <<>>
    /\ karakeepApiKey = <<>>
    /\ markdownFiles = <<>>
    /\ disabled = FALSE
    /\ logOutput = <<>>
    /\ runs = <<>>
    /\ requestCount = 0
    /\ titleIn \in Titles
    /\ payload = BuildPayload(<<>>)

CreatePayload ==
    /\ payload' = BuildPayload(titleIn)
    /\ UNCHANGED <<karakeepUrl, karakeepApiKey, markdownFiles, disabled, logOutput,
                   runs, requestCount, titleIn>>

NextTitle == CreatePayload

SpecTitle == InitTitle /\ [][NextTitle]_vars

\* ======================================================== the properties
RunIds == 1..Len(runs)

\* the runs whose locals are still there and that passed validation
Started == {r \in RunIds : runs[r].pc \in ActivePc \cup {"done"}}

FilesOf(r) == 1..runs[r].totalFiles

\* the name ends in .md, in any mix of upper and lower case
EndsInDotMd(name) ==
    /\ Len(name) >= 3
    /\ name[Len(name) - 2] = "."
    /\ name[Len(name) - 1] \in {"m", "M"}
    /\ name[Len(name)] \in {"d", "D"}

\* only blanks, or nothing
Blank(s) == \A i \in 1..Len(s) : s[i] = " "

RECURSIVE SumAttempts(_, _)
SumAttempts(hist, k) ==
    IF k = 0 THEN 0 ELSE hist[k].attempts + SumAttempts(hist, k - 1)

ErrorEntriesNaming(k) ==
    {j \in 1..Len(logOutput) : logOutput[j].isError /\ logOutput[j].file = k}

EntriesSaying(msg) == {j \in 1..Len(logOutput) : logOutput[j].msg = msg}

\* C1: in a run that passed validation a file has one POST to {apiUrl}/bookmarks
\* when its name ends in .md (any case) and its read succeeded, and none otherwise
\* (no second attempt after a failed one); every .md file of a finished run was
\* read; and the requests of a run add to those of the runs before it, whatever
\* those already created.
C1_OnePostPerReadableMarkdownFile ==
    \A r \in Started :
        /\ \A k \in FilesOf(r) :
             LET h == runs[r].hist[k]
             IN  /\ h.attempts = IF h.read = "ok" THEN 1 ELSE 0
                 /\ ~EndsInDotMd(runs[r].files[k]) => h.read = "none" /\ h.post = "none"
                 /\ (/\ runs[r].pc = "done"
                     /\ ~runs[r].iterationThrew
                     /\ EndsInDotMd(runs[r].files[k]))
                        => h.read \in {"ok", "fail"}
                 /\ h.post = "pending" =>
                        /\ runs[r].request.method = "POST"
                        /\ runs[r].request.url = runs[r].apiUrl \o <<"/", "bookmarks">>
        /\ requestCount =
               runs[r].requestsBefore + SumAttempts(runs[r].hist, runs[r].totalFiles)

\* C1's case: the same two .md files (one in upper case) posted again by a second
\* run, one POST each, although a POST failed
C1_Witness ==
    \E r \in Started :
        /\ runs[r].pc = "done"
        /\ runs[r].totalFiles >= 2
        /\ runs[r].requestsBefore = runs[r].totalFiles
        /\ requestCount = 2 * runs[r].totalFiles
        /\ \E k \in FilesOf(r) : runs[r].files[k] = <<"B", ".", "M", "D">>
        /\ \E k \in FilesOf(r) : runs[r].hist[k].result = "false"
        /\ \A k \in FilesOf(r) : runs[r].hist[k].attempts = 1

\* a 2xx answer, not 204 and not of length 0, whose body is JSON with an id the
\* code extracts (a number other than 0 or a string other than "")
AnsweredWithUsableId(resp) ==
    /\ resp.net
    /\ resp.status \in 200..299
    /\ resp.status # 204
    /\ ~resp.emptyLen
    /\ resp.jsonOk
    /\ resp.json.t = "object"
    /\ resp.json.hasId
    /\ ~(resp.json.idTy = "num" /\ resp.json.idNum = 0)
    /\ ~(resp.json.idTy = "str" /\ resp.json.idStr = <<>>)

CreateErrors ==
    {"ERROR: Could not extract 'id'", "An unexpected error occurred during CREATE"}

\* C2: createRootItemInKarakeep never throws to startImportProcess; once the request
\* of a file is over it has returned true exactly when the answer was 2xx with a
\* JSON body and an extracted id, and false, with an error entry of its own in the
\* log, for a rejected fetch, a non-2xx status, a body that is not JSON, a 204 or
\* empty body and a body without id.
C2_CreateReturnsBooleanNeverThrows ==
    \A r \in Started :
        /\ \A k \in FilesOf(r) : runs[r].hist[k].result # "threw"
        /\ (runs[r].pc = "sleeping" /\ runs[r].hist[runs[r].i].post = "done") =>
             LET k == runs[r].i
                 h == runs[r].hist[k]
             IN  /\ h.result \in {"true", "false"}
                 /\ h.result = "true" <=> AnsweredWithUsableId(runs[r].response)
                 /\ h.result = "false" =>
                        \E j \in ErrorEntriesNaming(k) : logOutput[j].msg \in CreateErrors

\* C2's case: a 204 answer, turned into false and an error entry
C2_Witness ==
    \E r \in Started :
        /\ runs[r].pc = "sleeping"
        /\ runs[r].response.net
        /\ runs[r].response.status = 204
        /\ runs[r].hist[runs[r].i].result = "false"
        /\ \E j \in ErrorEntriesNaming(runs[r].i) : logOutput[j].msg \in CreateErrors

SummaryHeader == "--- Import Run Summary ---"

\* the log ends with the summary of run r, and holds no other
SummaryLast(r) ==
    LET n == Len(logOutput)
    IN  /\ n >= 5
        /\ logOutput[n - 4] = LogEntry(SummaryHeader, 0, 0, FALSE)
        /\ logOutput[n - 3] =
               LogEntry("Total Markdown Files Selected", 0, runs[r].totalFiles, FALSE)
        /\ logOutput[n - 2] =
               LogEntry("Files Processed Attempted", 0, runs[r].filesProcessedCount, FALSE)
        /\ logOutput[n - 1] =
               LogEntry("Files Imported Successfully to Karakeep", 0,
                        runs[r].filesSyncedSuccessfully, FALSE)
        /\ logOutput[n] = LogEntry("--- End of Run ---", 0, 0, FALSE)
        /\ Cardinality(EntriesSaying(SummaryHeader)) = 1

SummaryOnceAndLast ==
    \A r \in Started :
        /\ runs[r].pc = "done" => SummaryLast(r)
        /\ runs[r].pc \in ActivePc => EntriesSaying(SummaryHeader) = {}

\* C3: a run that passed validation ends, when its reads, requests and timers
\* settle, and it ends with the summary (total, attempted, succeeded), logged once
\* and last, also after a fatal error; before the end no summary is logged.
C3_SummaryAlwaysEmitted ==
    /\ []SummaryOnceAndLast
    /\ \A r \in 1..MaxRuns :
         (r \in RunIds /\ runs[r].pc \in ActivePc)
             ~> (r \in RunIds /\ runs[r].pc \in {"done", "gone"})

\* C3's case: a run ended by a fatal error after a read or a create had failed,
\* with files left over, and its summary last
C3_Witness ==
    \E r \in Started :
        /\ runs[r].pc = "done"
        /\ runs[r].fatal
        /\ runs[r].filesProcessedCount < runs[r].totalFiles
        /\ \E k \in FilesOf(r) :
             runs[r].hist[k].read = "fail" \/ runs[r].hist[k].result = "false"
        /\ SummaryLast(r)

\* C4: a finished run over .md files only, whose iteration did not throw, was not
\* halted: it has read every file, processed = n, succeeded = the number of files
\* read and created, and one error entry naming each file whose read failed.
C4_FileFailuresDoNotAbort ==
    \A r \in Started :
        (/\ runs[r].pc = "done"
         /\ ~runs[r].iterationThrew
         /\ \A k \in FilesOf(r) : EndsInDotMd(runs[r].files[k]))
        => /\ ~runs[r].fatal
           /\ runs[r].filesProcessedCount = runs[r].totalFiles
           /\ runs[r].filesSyncedSuccessfully =
                  Cardinality({k \in FilesOf(r) :
                                   /\ runs[r].hist[k].read = "ok"
                                   /\ runs[r].hist[k].result = "true"})
           /\ \A k \in FilesOf(r) :
                  /\ runs[r].hist[k].read \in {"ok", "fail"}
                  /\ runs[r].hist[k].read = "fail" =>
                         /\ Cardinality(ErrorEntriesNaming(k)) = 1
                         /\ \A j \in ErrorEntriesNaming(k) :
                                logOutput[j].msg = "Error processing file"

\* C4's case: three .md files, the read of the second failed, the first and the
\* third created: processed = 3, succeeded = 2
C4_Witness ==
    \E r \in Started :
        /\ runs[r].pc = "done"
        /\ ~runs[r].fatal
        /\ runs[r].totalFiles = 3
        /\ \A k \in FilesOf(r) : EndsInDotMd(runs[r].files[k])
        /\ runs[r].hist[1].result = "true"
        /\ runs[r].hist[2].read = "fail"
        /\ runs[r].hist[3].result = "true"
        /\ Cardinality(ErrorEntriesNaming(2)) = 1
        /\ runs[r].filesProcessedCount = 3
        /\ runs[r].filesSyncedSuccessfully = 2

SkippedFiles(r) == {k \in FilesOf(r) : ~EndsInDotMd(runs[r].files[k])}

CreatedFiles(r) == {k \in FilesOf(r) : runs[r].hist[k].result = "true"}

\* C5, as the specification states it: a finished run whose iteration did not throw reports
\* processed = n - k, k the number of files not ending in .md.
C5_Stated_SkippedFilesNotCounted ==
    \A r \in Started :
        (runs[r].pc = "done" /\ ~runs[r].iterationThrew) =>
            runs[r].filesProcessedCount =
                runs[r].totalFiles - Cardinality(SkippedFiles(r))

\* C5, amended: the processed count is the number of files the loop has reached,
\* skipped ones included, so a finished run whose iteration did not throw reports
\* processed = n; a skipped file is never created, and succeeded counts the
\* created files only.
C5_SkippedFilesCountedAsProcessed ==
    \A r \in Started :
        /\ runs[r].filesProcessedCount = runs[r].i
        /\ (runs[r].pc = "done" /\ ~runs[r].iterationThrew) =>
               runs[r].filesProcessedCount = runs[r].totalFiles
        /\ \A k \in SkippedFiles(r) : runs[r].hist[k].result = "none"
        /\ runs[r].filesSyncedSuccessfully = Cardinality(CreatedFiles(r))

\* C5's case: three files, the second skipped, the others created: processed = 3,
\* succeeded = 2
C5_Witness ==
    \E r \in Started :
        /\ runs[r].pc = "done"
        /\ ~runs[r].iterationThrew
        /\ runs[r].totalFiles = 3
        /\ SkippedFiles(r) = {2}
        /\ CreatedFiles(r) = {1, 3}
        /\ runs[r].filesProcessedCount = 3
        /\ runs[r].filesSyncedSuccessfully = 2
        /\ SummaryLast(r)

\* C6, as the specification states it: once the request of a file is over, a 2xx answer (not 204, not
\* empty) with a JSON body whose id is a string or a number has made
\* createRootItemInKarakeep return true and succeeded one more than the files
\* created before it.
C6_Stated_AnyStringOrNumberId ==
    \A r \in Started :
        (/\ runs[r].pc = "sleeping"
         /\ runs[r].hist[runs[r].i].post = "done"
         /\ runs[r].response.net
         /\ runs[r].response.status \in 200..299
         /\ runs[r].response.status # 204
         /\ ~runs[r].response.emptyLen
         /\ runs[r].response.jsonOk
         /\ runs[r].response.json.t = "object"
         /\ runs[r].response.json.hasId
         /\ runs[r].response.json.idTy \in {"num", "str"})
        => /\ runs[r].hist[runs[r].i].result = "true"
           /\ runs[r].filesSyncedSuccessfully =
                  1 + Cardinality({k \in CreatedFiles(r) : k < runs[r].i})

\* C7: with a blank URL, a blank key or no file selected, every invocation has
\* returned at the validation: its log is the three entries up to the one error,
\* no file was read, no request sent, nothing counted, no summary logged, and the
\* button is enabled.
C7_InvalidInputsStartNothing ==
    (Blank(karakeepUrl) \/ Blank(karakeepApiKey) \/ markdownFiles = <<>>) =>
        /\ \A r \in RunIds : runs[r].pc \in {"invalid", "gone"}
        /\ requestCount = 0
        /\ ~disabled
        /\ \A r \in RunIds :
             runs[r].pc = "invalid" =>
                 /\ Len(logOutput) = 3
                 /\ logOutput[3].isError
                 /\ Cardinality({j \in 1..Len(logOutput) : logOutput[j].isError}) = 1
                 /\ EntriesSaying(SummaryHeader) = {}
                 /\ runs[r].filesProcessedCount = 0
                 /\ runs[r].filesSyncedSuccessfully = 0
                 /\ \A k \in FilesOf(r) : runs[r].hist[k] = NoHist

\* C7's case: a key of blanks only, with a URL and files, refused twice
C7_Witness ==
    /\ Len(runs) = 2
    /\ runs[2].pc = "invalid"
    /\ karakeepApiKey = <<" ">>
    /\ ~Blank(karakeepUrl)
    /\ markdownFiles # <<>>
    /\ ~disabled

ActiveRuns == {r \in RunIds : runs[r].pc \in ActivePc}

\* C8: at most one invocation is suspended at an await at any time, and the
\* button is disabled exactly while one is.
C8_RunsNeverOverlap ==
    /\ Cardinality(ActiveRuns) <= 1
    /\ disabled <=> ActiveRuns # {}

\* C8's case: a second run, started after the first had ended, waiting for its
\* request with the button disabled
C8_Witness ==
    /\ Len(runs) = 2
    /\ runs[1].pc = "gone"
    /\ runs[2].pc = "fetching"
    /\ disabled

Pending(r) ==
    {<<k, op>> \in FilesOf(r) \X {"read", "post", "delay"} :
        runs[r].hist[k][op] = "pending"}

Built == payload.note = titleIn \o DotMd

\* C10: the title of a payload is at most 255 long; a title longer than 255 is sent
\* as its first 252 characters followed by "...", 255 in all, and a title of at most
\* 255 is sent as it is.
C10_TitleAtMost255 ==
    Built =>
        /\ Len(payload.title) <= 255
        /\ Len(titleIn) > 255 =>
               /\ Len(payload.title) = 255
               /\ \A i \in 1..252 : payload.title[i] = titleIn[i]
               /\ \A i \in 253..255 : payload.title[i] = "."
        /\ Len(titleIn) <= 255 => payload.title = titleIn

\* C10's case: a title of 256 characters, cut
C10_Witness ==
    /\ Built
    /\ Len(titleIn) = 256
    /\ Len(payload.title) = 255
    /\ payload.title # SubSeq(titleIn, 1, 255)

====
